---- MODULE Spec2Model ----
(***************************************************************************)
(* A model of the thread pool of src/src/lib.rs: Builder::build, the       *)
(* worker loop of spawn_in_pool, the Sentinel guard, ThreadPool::execute   *)
(* and the idle notification of ThreadPoolSharedData.  Every access to a   *)
(* shared atomic, mutex, condition variable or channel is one step, so the *)
(* behaviours of the model are the interleavings of the threads.           *)
(***************************************************************************)
EXTENDS Integers, Sequences, FiniteSets, TLC

\* ------------------------------------------------------------------ bounds
\* The threads a pool is built with and the jobs submitted to it number at most
\* MaxLoad together: a pool of n threads is given up to MaxLoad - n jobs.
MaxLoad == 4
\* usize arithmetic wraps; the width is scaled down from 2^64.
UsizeModulus == 65536

\* The threads that call ThreadPool::execute, concurrently.
Producers == {1, 2}
\* The k-th job a producer submits is <<producer, k>>.
Job == Producers \X (1 .. MaxLoad - 1)
\* Every panicking job spawns one more worker thread.
Workers == 1 .. MaxLoad
NoJob == <<0, 0>>
Err == <<0, 1>>

VARIABLES
    num_threads,       \* Builder.num_threads
    bpc,               \* where the thread that builds and owns the pool is
    jobs,              \* ThreadPool.jobs, the Sender: "none", "open", "dropped"
    queue,             \* the messages in the channel, oldest first
    shared_data,       \* TRUE once the Arc<ThreadPoolSharedData> exists
    queued_count,
    active_count,
    max_thread_count,
    panic_count,
    job_receiver,      \* the worker that holds the job_receiver mutex, or 0
    empty_trigger,     \* the thread that holds the empty_trigger mutex, or 0
    empty_condvar,     \* the threads blocked in empty_condvar.wait
    nspawned,          \* the number of worker threads spawned so far
    wpc,               \* each worker thread's position
    thread_counter_val,\* each worker's local of that name
    message,           \* each worker's local of that name
    sentinel,          \* each worker's Sentinel.active
    panicking,         \* thread::panicking() of each worker
    in_drop,           \* whether each worker runs the armed part of Sentinel::drop
    ppc,               \* each producer's position
    sent,              \* the number of jobs each producer has sent
    flushed,           \* the number of them sent before its last idle wait
    calls,             \* history: how often call_box ran on each job
    received,          \* history: how often recv returned each job
    outcome,           \* history: "none", "running", "returned", "panicked"
    dropped_with,      \* history: how many messages the channel held when the pool was dropped
    caller_saw,        \* history: what each waiting caller's has_work call has met
    worker_saw         \* history: what each worker's has_work call has met

vars == <<num_threads, bpc, jobs, queue, shared_data, queued_count, active_count,
          max_thread_count, panic_count, job_receiver, empty_trigger,
          empty_condvar, nspawned, wpc, thread_counter_val, message, sentinel,
          panicking, in_drop, ppc, sent, flushed, calls, received, outcome,
          dropped_with, caller_saw, worker_saw>>

poolVars == <<num_threads, bpc, jobs, shared_data, max_thread_count>>
workerLocals == <<thread_counter_val, message, sentinel, panicking, in_drop>>
producerVars == <<ppc, sent, flushed>>
history == <<calls, received, outcome, dropped_with>>

\* ----------------------------------------------------------------- helpers
\* AtomicUsize::fetch_add(1) and fetch_sub(1): wrapping.
FetchAdd(x) == (x + 1) % UsizeModulus

FetchSub(x) == (x - 1) % UsizeModulus

\* A has_work that looks at the queue alone.
HasWorkQueuedOnly(q, a) == q > 0

\* A has_work with && for ||.
HasWorkAnd(q, a) == q > 0 /\ a > 0

\* ThreadPoolSharedData::has_work on the two values it loads.
HasWork(q, a) == q > 0 \/ a > 0

\* A recv that leaves the message in the channel.
RecvRestKeeps(q) == q

\* Receiver::recv: what the channel holds once the oldest message is taken.
RecvRest(q) == Tail(q)

\* A recv that reports the disconnection before it looks for a message.
RecvDisconnectedFirst(q, sender) == sender = "dropped"

\* A channel that never reports the disconnection, as if a Sender were kept alive.
RecvNeverDisconnected(q, sender) == FALSE

\* Receiver::recv returns Err: every Sender is dropped and no message is left.
RecvDisconnected(q, sender) == q = <<>> /\ sender = "dropped"

\* A build that does not check the size.
ZeroThreadsUnchecked(n) == FALSE

\* Builder::build: if self.num_threads == 0 { panic!(..) }
ZeroThreads(n) == n = 0

\* A build whose loop is 0..=num_threads.
SpawnMoreInclusive(i, n) == i <= n

\* Builder::build: for _ in 0..self.num_threads, with i threads spawned so far
SpawnMore(i, n) == i < n

\* spawn_in_pool: the new thread starts at the top of the worker loop.
SpawnInPool(pcs) == [pcs EXCEPT ![nspawned + 1] = "load_active"]

\* A cancel that leaves the Sentinel armed.
CancelKeepsArmed(active) == active

\* Sentinel::cancel: the value of Sentinel.active it leaves.
Cancel(active) == FALSE

\* A drop with the test inverted: if !thread::panicking().
DropCountsPanicInverted(w) == ~panicking[w]

\* Sentinel::drop counts a panic when the thread is unwinding.
DropCountsPanic(w) == panicking[w]

\* ------------------------------------------------- history of has_work calls
\* What a call of has_work has met between its load of queued_count and its
\* load of active_count: "idle" once both counters were 0 in one state, else
\* "raced" once an execute incremented queued_count meanwhile, else "none".
\* first: the step is the call's load of queued_count; between: the call has
\* loaded queued_count and not yet active_count, and another thread steps;
\* after: the call has loaded queued_count and its result is not yet used.
Observe(saw, first, between, after) ==
    IF ~after THEN "none"
    ELSE IF first THEN (IF queued_count = 0 /\ active_count = 0 THEN "idle" ELSE "none")
    ELSE IF ~between THEN saw
    ELSE IF saw = "idle" \/ (queued_count' = 0 /\ active_count' = 0) THEN "idle"
    ELSE IF queued_count' = FetchAdd(queued_count) THEN "raced"
    ELSE saw

\* Every step records what the has_work calls in progress have met.
Track ==
    /\ caller_saw' = [p \in Producers |->
           Observe(caller_saw[p], ppc[p] = "wait_queued",
                   ppc[p] = "wait_active" /\ ppc'[p] = "wait_active",
                   ppc'[p] \in {"wait_active", "wait_done"})]
    /\ worker_saw' = [w \in Workers |->
           Observe(worker_saw[w], wpc[w] = "nw_queued",
                   wpc[w] = "nw_active" /\ wpc'[w] = "nw_active",
                   wpc'[w] \in {"nw_active", "nw_lock"})]

\* ------------------------------------------------------------------- Init
Init ==
    /\ num_threads \in 0 .. MaxLoad - 1
    /\ bpc = "new"
    /\ jobs = "none"
    /\ queue = <<>>
    /\ shared_data = FALSE
    /\ queued_count = 0
    /\ active_count = 0
    /\ max_thread_count = 0
    /\ panic_count = 0
    /\ job_receiver = 0
    /\ empty_trigger = 0
    /\ empty_condvar = {}
    /\ nspawned = 0
    /\ wpc = [w \in Workers |-> "unborn"]
    /\ thread_counter_val = [w \in Workers |-> 0]
    /\ message = [w \in Workers |-> NoJob]
    /\ sentinel = [w \in Workers |-> TRUE]
    /\ panicking = [w \in Workers |-> FALSE]
    /\ in_drop = [w \in Workers |-> FALSE]
    /\ ppc = [p \in Producers |-> "idle"]
    /\ sent = [p \in Producers |-> 0]
    /\ flushed = [p \in Producers |-> 0]
    /\ calls = [j \in Job |-> 0]
    /\ received = [j \in Job |-> 0]
    /\ outcome = [j \in Job |-> "none"]
    /\ dropped_with = 0
    /\ caller_saw = [p \in Producers |-> "none"]
    /\ worker_saw = [w \in Workers |-> "none"]

\* ---------------------------------------------------------- Builder::build
\* let (tx, rx) = channel()
BuildChannel ==
    /\ bpc = "new"
    /\ bpc' = "check"
    /\ jobs' = "open"
    /\ UNCHANGED <<num_threads, shared_data, max_thread_count, queue, queued_count,
                   active_count, panic_count, job_receiver, empty_trigger,
                   empty_condvar, nspawned, wpc, workerLocals, producerVars, history>>
    /\ Track

\* if num_threads == 0 { panic!(..) }: the unwinding drops tx and rx.
\* Otherwise the shared data is created.
BuildCheck ==
    /\ bpc = "check"
    /\ IF ZeroThreads(num_threads)
       THEN /\ bpc' = "panicked"
            /\ jobs' = "dropped"
            /\ UNCHANGED <<shared_data, max_thread_count>>
       ELSE /\ bpc' = "spawn"
            /\ shared_data' = TRUE
            /\ max_thread_count' = num_threads
            /\ UNCHANGED jobs
    /\ UNCHANGED <<num_threads, queue, queued_count, active_count, panic_count,
                   job_receiver, empty_trigger, empty_condvar, nspawned, wpc,
                   workerLocals, producerVars, history>>
    /\ Track

\* for _ in 0..num_threads { spawn_in_pool(..) }, then the ThreadPool is returned.
BuildSpawn ==
    /\ bpc = "spawn"
    /\ IF SpawnMore(nspawned, num_threads)
       THEN /\ wpc' = SpawnInPool(wpc)
            /\ nspawned' = nspawned + 1
            /\ UNCHANGED bpc
       ELSE /\ bpc' = "built"
            /\ UNCHANGED <<wpc, nspawned>>
    /\ UNCHANGED <<num_threads, jobs, shared_data, max_thread_count, queue,
                   queued_count, active_count, panic_count, job_receiver,
                   empty_trigger, empty_condvar, workerLocals, producerVars, history>>
    /\ Track

\* A drop that first waits until the pool is idle.
DropPoolWhenIdle ==
    /\ bpc = "built"
    /\ \A p \in Producers : ppc[p] = "idle"
    /\ queue = <<>> /\ active_count = 0
    /\ bpc' = "dropped"
    /\ jobs' = "dropped"
    /\ dropped_with' = Len(queue)
    /\ UNCHANGED <<num_threads, shared_data, max_thread_count, queue, queued_count,
                   active_count, panic_count, job_receiver, empty_trigger,
                   empty_condvar, nspawned, wpc, workerLocals, producerVars, calls,
                   received, outcome>>
    /\ Track

\* The owner drops the ThreadPool: the only Sender goes away.  ThreadPool has no
\* Drop impl and keeps no JoinHandle, so this is all that happens.  execute
\* borrows the pool, so no call of it is in progress.
DropPool ==
    /\ bpc = "built"
    /\ \A p \in Producers : ppc[p] = "idle"
    /\ bpc' = "dropped"
    /\ jobs' = "dropped"
    /\ dropped_with' = Len(queue)
    /\ UNCHANGED <<num_threads, shared_data, max_thread_count, queue, queued_count,
                   active_count, panic_count, job_receiver, empty_trigger,
                   empty_condvar, nspawned, wpc, workerLocals, producerVars, calls,
                   received, outcome>>
    /\ Track

\* ----------------------------------------------------- ThreadPool::execute
\* The jobs whose execute has begun.
Submitted == {j \in Job : j[2] <= sent[j[1]] + (IF ppc[j[1]] = "send" THEN 1 ELSE 0)}

\* An execute that sends the job without counting it in queued_count.
ExecuteCountForgets(p) ==
    /\ bpc = "built"
    /\ ppc[p] = "idle"
    /\ num_threads + Cardinality(Submitted) < MaxLoad
    /\ ppc' = [ppc EXCEPT ![p] = "send"]
    /\ UNCHANGED <<poolVars, queue, queued_count, active_count, panic_count,
                   job_receiver, empty_trigger, empty_condvar, nspawned, wpc,
                   workerLocals, sent, flushed, history>>
    /\ Track

\* queued_count.fetch_add(1)
ExecuteCount(p) ==
    /\ bpc = "built"
    /\ ppc[p] = "idle"
    /\ num_threads + Cardinality(Submitted) < MaxLoad
    /\ queued_count' = FetchAdd(queued_count)
    /\ ppc' = [ppc EXCEPT ![p] = "send"]
    /\ UNCHANGED <<poolVars, queue, active_count, panic_count, job_receiver,
                   empty_trigger, empty_condvar, nspawned, wpc, workerLocals, sent,
                   flushed, history>>
    /\ Track

\* A channel that hands out the newest message first.
ExecuteSendFront(p) ==
    /\ ppc[p] = "send"
    /\ queue' = <<<<p, sent[p] + 1>>>> \o queue
    /\ sent' = [sent EXCEPT ![p] = @ + 1]
    /\ ppc' = [ppc EXCEPT ![p] = "idle"]
    /\ UNCHANGED <<poolVars, queued_count, active_count, panic_count, job_receiver,
                   empty_trigger, empty_condvar, nspawned, wpc, workerLocals, flushed,
                   history>>
    /\ Track

\* jobs.send(Box::new(job))
ExecuteSend(p) ==
    /\ ppc[p] = "send"
    /\ queue' = Append(queue, <<p, sent[p] + 1>>)
    /\ sent' = [sent EXCEPT ![p] = @ + 1]
    /\ ppc' = [ppc EXCEPT ![p] = "idle"]
    /\ UNCHANGED <<poolVars, queued_count, active_count, panic_count, job_receiver,
                   empty_trigger, empty_condvar, nspawned, wpc, workerLocals, flushed,
                   history>>
    /\ Track

\* ---------------------------------------------------------- the idle wait
\* A caller's wait until the pool is idle, after it has submitted jobs:
\*   let mut lock = empty_trigger.lock();
\*   while has_work() { lock = empty_condvar.wait(lock) }
\* empty_trigger.lock()
WaitLock(p) ==
    /\ bpc = "built"
    /\ ppc[p] = "idle"
    /\ flushed[p] < sent[p]
    /\ empty_trigger = 0
    /\ empty_trigger' = p
    /\ ppc' = [ppc EXCEPT ![p] = "wait_queued"]
    /\ UNCHANGED <<poolVars, queue, queued_count, active_count, panic_count,
                   job_receiver, empty_condvar, nspawned, wpc, workerLocals, sent,
                   flushed, history>>
    /\ Track

\* has_work: queued_count.load() > 0 || ..
WaitLoadQueued(p) ==
    /\ ppc[p] = "wait_queued"
    /\ ppc' = [ppc EXCEPT ![p] =
                 IF HasWork(queued_count, 0) THEN "wait_block" ELSE "wait_active"]
    /\ UNCHANGED <<poolVars, queue, queued_count, active_count, panic_count,
                   job_receiver, empty_trigger, empty_condvar, nspawned, wpc,
                   workerLocals, sent, flushed, history>>
    /\ Track

\* .. || active_count.load() > 0
WaitLoadActive(p) ==
    /\ ppc[p] = "wait_active"
    /\ ppc' = [ppc EXCEPT ![p] =
                 IF HasWork(0, active_count) THEN "wait_block" ELSE "wait_done"]
    /\ UNCHANGED <<poolVars, queue, queued_count, active_count, panic_count,
                   job_receiver, empty_trigger, empty_condvar, nspawned, wpc,
                   workerLocals, sent, flushed, history>>
    /\ Track

\* empty_condvar.wait(lock): releases the mutex and blocks, in one step.
WaitBlock(p) ==
    /\ ppc[p] = "wait_block"
    /\ empty_trigger' = 0
    /\ empty_condvar' = empty_condvar \cup {p}
    /\ ppc' = [ppc EXCEPT ![p] = "waiting"]
    /\ UNCHANGED <<poolVars, queue, queued_count, active_count, panic_count,
                   job_receiver, nspawned, wpc, workerLocals, sent, flushed, history>>
    /\ Track

\* A condition variable may wake a waiter without a notification.
WaitSpurious(p) ==
    /\ ppc[p] = "waiting"
    /\ empty_condvar' = empty_condvar \ {p}
    /\ ppc' = [ppc EXCEPT ![p] = "wait_relock"]
    /\ UNCHANGED <<poolVars, queue, queued_count, active_count, panic_count,
                   job_receiver, empty_trigger, nspawned, wpc, workerLocals, sent,
                   flushed, history>>
    /\ Track

\* The woken waiter takes the mutex again before wait returns.
WaitRelock(p) ==
    /\ ppc[p] = "wait_relock"
    /\ empty_trigger = 0
    /\ empty_trigger' = p
    /\ ppc' = [ppc EXCEPT ![p] = "wait_queued"]
    /\ UNCHANGED <<poolVars, queue, queued_count, active_count, panic_count,
                   job_receiver, empty_condvar, nspawned, wpc, workerLocals, sent,
                   flushed, history>>
    /\ Track

\* has_work() was false: the guard is released and the wait returns.
WaitReturn(p) ==
    /\ ppc[p] = "wait_done"
    /\ empty_trigger' = 0
    /\ flushed' = [flushed EXCEPT ![p] = sent[p]]
    /\ ppc' = [ppc EXCEPT ![p] = "idle"]
    /\ UNCHANGED <<poolVars, queue, queued_count, active_count, panic_count,
                   job_receiver, empty_condvar, nspawned, wpc, workerLocals, sent,
                   history>>
    /\ Track

\* ------------------------------------------------- the worker loop
\* let thread_counter_val = active_count.load(Acquire)
LoadActive(w) ==
    /\ wpc[w] = "load_active"
    /\ thread_counter_val' = [thread_counter_val EXCEPT ![w] = active_count]
    /\ wpc' = [wpc EXCEPT ![w] = "load_max"]
    /\ UNCHANGED <<poolVars, queue, queued_count, active_count, panic_count,
                   job_receiver, empty_trigger, empty_condvar, nspawned, message,
                   sentinel, panicking, in_drop, producerVars, history>>
    /\ Track

\* let max_thread_count_val = max_thread_count.load(Relaxed);
\* if thread_counter_val >= max_thread_count_val { break }
LoadMax(w) ==
    /\ wpc[w] = "load_max"
    /\ wpc' = [wpc EXCEPT ![w] =
                 IF thread_counter_val[w] >= max_thread_count THEN "cancel" ELSE "lock"]
    /\ thread_counter_val' = [thread_counter_val EXCEPT ![w] = 0]
    /\ UNCHANGED <<poolVars, queue, queued_count, active_count, panic_count,
                   job_receiver, empty_trigger, empty_condvar, nspawned, message,
                   sentinel, panicking, in_drop, producerVars, history>>
    /\ Track

\* job_receiver.lock()
Lock(w) ==
    /\ wpc[w] = "lock"
    /\ job_receiver = 0
    /\ job_receiver' = w
    /\ wpc' = [wpc EXCEPT ![w] = "recv"]
    /\ UNCHANGED <<poolVars, queue, queued_count, active_count, panic_count,
                   empty_trigger, empty_condvar, nspawned, workerLocals,
                   producerVars, history>>
    /\ Track

\* A worker that keeps the job_receiver guard while it handles the message.
RecvKeepsLock(w) ==
    /\ wpc[w] = "recv"
    /\ IF RecvDisconnected(queue, jobs)
       THEN /\ wpc' = [wpc EXCEPT ![w] = "cancel"]
            /\ job_receiver' = 0
            /\ UNCHANGED <<queue, received, message>>
       ELSE /\ queue # <<>>
            /\ message' = [message EXCEPT ![w] = Head(queue)]
            /\ queue' = RecvRest(queue)
            /\ received' = [received EXCEPT ![Head(queue)] = @ + 1]
            /\ wpc' = [wpc EXCEPT ![w] = "count_active"]
            /\ UNCHANGED job_receiver
    /\ UNCHANGED <<poolVars, queued_count, active_count, panic_count,
                   empty_trigger, empty_condvar, nspawned, thread_counter_val,
                   sentinel, panicking, in_drop, producerVars, calls, outcome,
                   dropped_with>>
    /\ Track

\* lock.recv(): the oldest message, or Err once the Sender is dropped and the
\* channel is empty; blocks otherwise.  The guard leaves scope at the end of the
\* block, which releases job_receiver; then the match: Err(..) => break.
Recv(w) ==
    /\ wpc[w] = "recv"
    /\ job_receiver' = 0
    /\ IF RecvDisconnected(queue, jobs)
       THEN /\ wpc' = [wpc EXCEPT ![w] = "cancel"]
            /\ UNCHANGED <<queue, received, message>>
       ELSE /\ queue # <<>>
            /\ message' = [message EXCEPT ![w] = Head(queue)]
            /\ queue' = RecvRest(queue)
            /\ received' = [received EXCEPT ![Head(queue)] = @ + 1]
            /\ wpc' = [wpc EXCEPT ![w] = "count_active"]
    /\ UNCHANGED <<poolVars, queued_count, active_count, panic_count,
                   empty_trigger, empty_condvar, nspawned, thread_counter_val,
                   sentinel, panicking, in_drop, producerVars, calls, outcome,
                   dropped_with>>
    /\ Track

\* active_count.fetch_add(1)
CountActive(w) ==
    /\ wpc[w] = "count_active"
    /\ active_count' = FetchAdd(active_count)
    /\ wpc' = [wpc EXCEPT ![w] = "count_queued"]
    /\ UNCHANGED <<poolVars, queue, queued_count, panic_count, job_receiver,
                   empty_trigger, empty_condvar, nspawned, workerLocals,
                   producerVars, history>>
    /\ Track

\* queued_count.fetch_sub(1); then job.call_box() starts the job.
CountQueued(w) ==
    /\ wpc[w] = "count_queued"
    /\ queued_count' = FetchSub(queued_count)
    /\ calls' = [calls EXCEPT ![message[w]] = @ + 1]
    /\ outcome' = [outcome EXCEPT ![message[w]] = "running"]
    /\ wpc' = [wpc EXCEPT ![w] = "running"]
    /\ UNCHANGED <<poolVars, queue, active_count, panic_count, job_receiver,
                   empty_trigger, empty_condvar, nspawned, workerLocals,
                   producerVars, received, dropped_with>>
    /\ Track

\* The job returns.
JobReturns(w) ==
    /\ wpc[w] = "running"
    /\ outcome' = [outcome EXCEPT ![message[w]] = "returned"]
    /\ wpc' = [wpc EXCEPT ![w] = "uncount_active"]
    /\ message' = [message EXCEPT ![w] = NoJob]
    /\ UNCHANGED <<poolVars, queue, queued_count, active_count, panic_count,
                   job_receiver, empty_trigger, empty_condvar, nspawned,
                   thread_counter_val, sentinel, panicking, in_drop, producerVars,
                   calls, received, dropped_with>>
    /\ Track

\* The job panics: the thread unwinds and the Sentinel is dropped armed.
JobPanics(w) ==
    /\ wpc[w] = "running"
    /\ outcome' = [outcome EXCEPT ![message[w]] = "panicked"]
    /\ panicking' = [panicking EXCEPT ![w] = TRUE]
    /\ wpc' = [wpc EXCEPT ![w] = "drop"]
    /\ message' = [message EXCEPT ![w] = NoJob]
    /\ UNCHANGED <<poolVars, queue, queued_count, active_count, panic_count,
                   job_receiver, empty_trigger, empty_condvar, nspawned,
                   thread_counter_val, sentinel, in_drop, producerVars, calls,
                   received, dropped_with>>
    /\ Track

\* A worker loop that does not take the finished job out of active_count.
UncountActiveForgets(w) ==
    /\ wpc[w] = "uncount_active"
    /\ wpc' = [wpc EXCEPT ![w] = "nw_queued"]
    /\ UNCHANGED <<poolVars, queue, queued_count, active_count, panic_count,
                   job_receiver, empty_trigger, empty_condvar, nspawned,
                   workerLocals, producerVars, history>>
    /\ Track

\* A worker loop that takes the finished job out of active_count twice.
UncountActiveTwice(w) ==
    /\ wpc[w] = "uncount_active"
    /\ active_count' = FetchSub(FetchSub(active_count))
    /\ wpc' = [wpc EXCEPT ![w] = "nw_queued"]
    /\ UNCHANGED <<poolVars, queue, queued_count, panic_count, job_receiver,
                   empty_trigger, empty_condvar, nspawned, workerLocals,
                   producerVars, history>>
    /\ Track

\* active_count.fetch_sub(1) after the job returned.
UncountActive(w) ==
    /\ wpc[w] = "uncount_active"
    /\ active_count' = FetchSub(active_count)
    /\ wpc' = [wpc EXCEPT ![w] = "nw_queued"]
    /\ UNCHANGED <<poolVars, queue, queued_count, panic_count, job_receiver,
                   empty_trigger, empty_condvar, nspawned, workerLocals,
                   producerVars, history>>
    /\ Track

\* --------------------------------- ThreadPoolSharedData::no_work_notify_all
\* Where no_work_notify_all returns to: the loop, or Sentinel::drop.
NotifyReturn(w) == IF in_drop[w] THEN "drop_spawn" ELSE "load_active"

\* has_work: queued_count.load() > 0 || ..
NwLoadQueued(w) ==
    /\ wpc[w] = "nw_queued"
    /\ wpc' = [wpc EXCEPT ![w] =
                 IF HasWork(queued_count, 0) THEN NotifyReturn(w) ELSE "nw_active"]
    /\ UNCHANGED <<poolVars, queue, queued_count, active_count, panic_count,
                   job_receiver, empty_trigger, empty_condvar, nspawned,
                   workerLocals, producerVars, history>>
    /\ Track

\* .. || active_count.load() > 0
NwLoadActive(w) ==
    /\ wpc[w] = "nw_active"
    /\ wpc' = [wpc EXCEPT ![w] =
                 IF HasWork(0, active_count) THEN NotifyReturn(w) ELSE "nw_lock"]
    /\ UNCHANGED <<poolVars, queue, queued_count, active_count, panic_count,
                   job_receiver, empty_trigger, empty_condvar, nspawned,
                   workerLocals, producerVars, history>>
    /\ Track

\* A no_work_notify_all that does not take empty_trigger before it notifies.
NwLockSkipped(w) ==
    /\ wpc[w] = "nw_lock"
    /\ wpc' = [wpc EXCEPT ![w] = "nw_notify"]
    /\ UNCHANGED <<poolVars, queue, queued_count, active_count, panic_count,
                   job_receiver, empty_trigger, empty_condvar, nspawned,
                   workerLocals, producerVars, history>>
    /\ Track

\* *empty_trigger.lock(): the guard is a temporary, released at once.
NwLock(w) ==
    /\ wpc[w] = "nw_lock"
    /\ empty_trigger = 0
    /\ wpc' = [wpc EXCEPT ![w] = "nw_notify"]
    /\ UNCHANGED <<poolVars, queue, queued_count, active_count, panic_count,
                   job_receiver, empty_trigger, empty_condvar, nspawned,
                   workerLocals, producerVars, history>>
    /\ Track

\* empty_condvar.notify_all()
NwNotify(w) ==
    /\ wpc[w] = "nw_notify"
    /\ empty_condvar' = {}
    /\ ppc' = [p \in Producers |-> IF p \in empty_condvar THEN "wait_relock" ELSE ppc[p]]
    /\ wpc' = [wpc EXCEPT ![w] = NotifyReturn(w)]
    /\ UNCHANGED <<poolVars, queue, queued_count, active_count, panic_count,
                   job_receiver, empty_trigger, nspawned, workerLocals, sent, flushed,
                   history>>
    /\ Track

\* ---------------------------------------------- Sentinel::cancel and drop
\* sentinel.cancel() after the loop: it takes the Sentinel by value, so the
\* Sentinel is dropped, disarmed, when cancel returns, and the thread ends.
SentinelCancel(w) ==
    /\ wpc[w] = "cancel"
    /\ sentinel' = [sentinel EXCEPT ![w] = Cancel(@)]
    /\ wpc' = [wpc EXCEPT ![w] = IF Cancel(sentinel[w]) THEN "drop" ELSE "exited"]
    /\ UNCHANGED <<poolVars, queue, queued_count, active_count, panic_count,
                   job_receiver, empty_trigger, empty_condvar, nspawned,
                   thread_counter_val, message, panicking, in_drop, producerVars,
                   history>>
    /\ Track

\* A drop that does not take the panicked job out of active_count.
SentinelDropKeepsCount(w) ==
    /\ wpc[w] = "drop"
    /\ IF sentinel[w]
       THEN /\ in_drop' = [in_drop EXCEPT ![w] = TRUE]
            /\ wpc' = [wpc EXCEPT ![w] = "drop_panicking"]
       ELSE /\ wpc' = [wpc EXCEPT ![w] = "exited"]
            /\ UNCHANGED in_drop
    /\ UNCHANGED <<poolVars, queue, queued_count, active_count, panic_count,
                   job_receiver, empty_trigger, empty_condvar, nspawned,
                   thread_counter_val, message, sentinel, panicking, producerVars,
                   history>>
    /\ Track

\* Sentinel::drop, reached armed by the unwinding of a panic:
\* if self.active { active_count.fetch_sub(1); .. }
SentinelDrop(w) ==
    /\ wpc[w] = "drop"
    /\ IF sentinel[w]
       THEN /\ active_count' = FetchSub(active_count)
            /\ in_drop' = [in_drop EXCEPT ![w] = TRUE]
            /\ wpc' = [wpc EXCEPT ![w] = "drop_panicking"]
       ELSE /\ wpc' = [wpc EXCEPT ![w] = "exited"]
            /\ UNCHANGED <<active_count, in_drop>>
    /\ UNCHANGED <<poolVars, queue, queued_count, panic_count, job_receiver,
                   empty_trigger, empty_condvar, nspawned, thread_counter_val,
                   message, sentinel, panicking, producerVars, history>>
    /\ Track

\* if thread::panicking() { panic_count.fetch_add(1) }
DropPanicking(w) ==
    /\ wpc[w] = "drop_panicking"
    /\ panic_count' = IF DropCountsPanic(w) THEN FetchAdd(panic_count) ELSE panic_count
    /\ wpc' = [wpc EXCEPT ![w] = "nw_queued"]
    /\ UNCHANGED <<poolVars, queue, queued_count, active_count, job_receiver,
                   empty_trigger, empty_condvar, nspawned, workerLocals,
                   producerVars, history>>
    /\ Track

\* A drop that ends the thread without spawning a replacement.
DropSpawnForgets(w) ==
    /\ wpc[w] = "drop_spawn"
    /\ wpc' = [wpc EXCEPT ![w] = "exited"]
    /\ UNCHANGED <<poolVars, queue, queued_count, active_count, panic_count,
                   job_receiver, empty_trigger, empty_condvar, nspawned,
                   workerLocals, producerVars, history>>
    /\ Track

\* spawn_in_pool(self.shared_data.clone()); then the thread ends.
DropSpawn(w) ==
    /\ wpc[w] = "drop_spawn"
    /\ wpc' = [SpawnInPool(wpc) EXCEPT ![w] = "exited"]
    /\ nspawned' = nspawned + 1
    /\ UNCHANGED <<poolVars, queue, queued_count, active_count, panic_count,
                   job_receiver, empty_trigger, empty_condvar, workerLocals,
                   producerVars, history>>
    /\ Track

\* ------------------------------------------------------------ definitions
Sent == {j \in Job : j[2] <= sent[j[1]]}
Finished == {j \in Job : outcome[j] \in {"returned", "panicked"}}
Panicked == {j \in Job : outcome[j] = "panicked"}
Spawned == 1 .. nspawned
Exited == {w \in Spawned : wpc[w] = "exited"}
\* The threads that run the armed part of Sentinel::drop and have not yet
\* spawned their replacement.
Replacing == {w \in Spawned : panicking[w] /\ wpc[w] # "exited"}
\* The threads that left the loop by a break.
Leaving == {w \in Spawned : ~panicking[w] /\ (in_drop[w] \/ wpc[w] \in {"cancel", "drop", "exited"})}
\* The threads in the worker loop.
InLoop == {w \in Spawned : ~panicking[w] /\ ~in_drop[w]
                            /\ wpc[w] \notin {"cancel", "drop", "exited"}}

\* --------------------------------------------------------------- the system
WorkerStep(w) ==
    \/ LoadActive(w) \/ LoadMax(w) \/ Lock(w) \/ Recv(w)
    \/ CountActive(w) \/ CountQueued(w) \/ JobReturns(w)
    \/ JobPanics(w) \/ UncountActive(w)
    \/ NwLoadQueued(w) \/ NwLoadActive(w) \/ NwLock(w) \/ NwNotify(w)
    \/ SentinelCancel(w) \/ SentinelDrop(w) \/ DropPanicking(w) \/ DropSpawn(w)

Next ==
    \/ BuildChannel \/ BuildCheck \/ BuildSpawn \/ DropPool
    \/ \E p \in Producers : ExecuteCount(p) \/ ExecuteSend(p)
    \/ \E w \in Workers : WorkerStep(w)

Spec == Init /\ [][Next]_vars

\* The scheduler runs every thread that can take a step, a job that was called
\* returns or panicks, and a call of execute that has begun sends its job.
Fairness ==
    /\ \A w \in Workers : WF_vars(WorkerStep(w))
    /\ \A p \in Producers : WF_vars(ExecuteSend(p))
    /\ WF_vars(BuildChannel \/ BuildCheck \/ BuildSpawn)

LiveSpec == Spec /\ Fairness

\* The same system with callers that wait for the pool to become idle.
WaitStep(p) ==
    \/ WaitLock(p) \/ WaitLoadQueued(p) \/ WaitLoadActive(p) \/ WaitBlock(p)
    \/ WaitRelock(p) \/ WaitReturn(p)

NextWait ==
    \/ BuildChannel \/ BuildCheck \/ BuildSpawn \/ DropPool
    \/ \E p \in Producers : ExecuteCount(p) \/ ExecuteSend(p) \/ WaitStep(p)
                             \/ WaitSpurious(p)
    \/ \E w \in Workers : WorkerStep(w)

SpecWait == Init /\ [][NextWait]_vars

\* The waiters are woken by notify_all alone.
NextNotified ==
    \/ BuildChannel \/ BuildCheck \/ BuildSpawn \/ DropPool
    \/ \E p \in Producers : ExecuteCount(p) \/ ExecuteSend(p) \/ WaitStep(p)
    \/ \E w \in Workers : WorkerStep(w)

\* A waiter that can take a step of its wait takes it; the start of a wait is
\* not forced.
WaitFairness ==
    \A p \in Producers :
        WF_vars(WaitLoadQueued(p) \/ WaitLoadActive(p) \/ WaitBlock(p)
                \/ WaitRelock(p) \/ WaitReturn(p))

LiveSpecWait == Init /\ [][NextNotified]_vars /\ Fairness /\ WaitFairness

\* The same system with an owner that lowers the target worker count:
\*   resize(new_target) updates target_worker_count; if decreasing, it takes no
\*   immediate action.
ResizeDown ==
    /\ bpc = "built"
    /\ \E new_target \in 1 .. max_thread_count - 1 : max_thread_count' = new_target
    /\ UNCHANGED <<num_threads, bpc, jobs, shared_data, queue, queued_count,
                   active_count, panic_count, job_receiver, empty_trigger,
                   empty_condvar, nspawned, wpc, workerLocals, producerVars, history>>
    /\ Track

NextResize == Next \/ ResizeDown

SpecResize == Init /\ [][NextResize]_vars

LiveSpecResize == SpecResize /\ Fairness

\* The worker threads that have not ended.
Live == {w \in Spawned : wpc[w] # "exited"}

\* --------------------------------------------------------------- the claims
\* C2: a job is delivered to exactly one consumer: no job has been received by
\* two workers, no two workers hold the same job, and call_box has run at most
\* once on each job.
ExactlyOneConsumer ==
    /\ \A j \in Job : received[j] <= 1 /\ calls[j] <= received[j]
    /\ \A v, w \in Workers : v # w /\ message[v] \in Job => message[v] # message[w]
    /\ \A j \in Job : received[j] > 0 => j \in Sent /\ ~(\E i \in 1 .. Len(queue) : queue[i] = j)

\* Two workers have each received a job of their own and run it at the same
\* time.
TwoConsumersWitness ==
    \E v, w \in Workers : /\ v # w
                          /\ wpc[v] = "running" /\ wpc[w] = "running"
                          /\ message[v] \in Job /\ message[w] \in Job
                          /\ calls[message[v]] = 1 /\ calls[message[w]] = 1

\* C5: panic_count counts the panicked jobs exactly: it never exceeds their
\* number, it lags only by the panicking workers whose Sentinel has not yet
\* counted, and it equals that number once their cleanup has run.
PanicCountExact ==
    LET uncounted == {w \in Spawned : panicking[w] /\ wpc[w] \in {"drop", "drop_panicking"}}
    IN  /\ panic_count + Cardinality(uncounted) = Cardinality(Panicked)
        /\ panic_count <= Cardinality(Panicked)

\* A job has panicked and been counted, another has returned, and a worker has
\* left its loop by a break.
PanicCountWitness ==
    /\ panic_count = 1
    /\ Cardinality(Panicked) = 1
    /\ \E j \in Job : outcome[j] = "returned"
    /\ \E w \in Exited : ~panicking[w]

\* C9: a build with num_threads = 0 panics before it creates the shared data,
\* spawns a thread or returns a pool, so nothing is ever submitted.
ZeroThreadsFailFast ==
    num_threads = 0 =>
        /\ bpc \in {"new", "check", "panicked"}
        /\ ~shared_data
        /\ nspawned = 0
        /\ \A w \in Workers : wpc[w] = "unborn"
        /\ Sent = {} /\ queue = <<>> /\ queued_count = 0
        /\ \A p \in Producers : ppc[p] = "idle"

\* The build with num_threads = 0 has panicked.
ZeroThreadsWitness == num_threads = 0 /\ bpc = "panicked" /\ jobs = "dropped"

\* C10: active_count is at most max_thread_count in every state.
ActiveAtMostMax == active_count <= max_thread_count

\* After a panic, the replacement worker runs a job and active_count is at the
\* maximum again.
ActiveAtMostMaxWitness ==
    /\ shared_data
    /\ active_count = max_thread_count
    /\ nspawned > num_threads
    /\ Cardinality(Panicked) >= 1
    /\ \E w \in Spawned : w > num_threads /\ wpc[w] = "running"

\* C6: a panic leaves the capacity of the pool unchanged: every worker whose job
\* panicked spawns exactly one replacement before it ends, so the workers in the
\* loop, those that are replacing themselves and those that left by a break
\* always number num_threads; while the pool is alive no worker has left by a
\* break, so once no replacement is pending exactly num_threads workers are in
\* the loop.
CapacityRestored ==
    bpc \in {"built", "dropped"} =>
        /\ Cardinality(InLoop) + Cardinality(Replacing) + Cardinality(Leaving) = num_threads
        /\ nspawned = num_threads + Cardinality({w \in Exited : panicking[w]})
        /\ bpc = "built" => Leaving = {}
        /\ bpc = "built" /\ Replacing = {} => Cardinality(InLoop) = num_threads

\* Two jobs have panicked, both replacements run, and the pool of two threads has
\* two workers in its loop again.
CapacityRestoredWitness ==
    /\ bpc = "built"
    /\ num_threads = 2
    /\ Cardinality(Panicked) = 2
    /\ Replacing = {}
    /\ nspawned = num_threads + 2
    /\ Cardinality(InLoop) = 2

\* C7: once the pool is dropped, recv returns Err only when the channel is
\* empty, so a worker leaves only then, and when every worker has ended every
\* job that was sent has been run: the drop discards no queued job.
ShutdownDrains ==
    /\ \A w \in Spawned : wpc[w] = "cancel" => queue = <<>> /\ bpc = "dropped"
    /\ Leaving # {} => queue = <<>>
    /\ bpc = "dropped" /\ Exited = Spawned => Sent \subseteq Finished /\ queue = <<>>

\* The pool was dropped with two jobs still in the channel; both were run and
\* every worker has ended.
ShutdownDrainsWitness ==
    /\ bpc = "dropped"
    /\ dropped_with = 2
    /\ Exited = Spawned
    /\ Cardinality(Finished) >= 2

EverySubmittedJobRuns ==
    \A j \in Job : (j \in Sent) ~> (calls[j] = 1 /\ j \in Finished
                                    /\ \A i \in 1 .. Len(queue) : queue[i] # j)

\* Two producers have submitted a job each, one of them panicked, and both have
\* been started.
EverySubmittedJobRunsWitness ==
    /\ \A p \in Producers : sent[p] >= 1
    /\ \A j \in Sent : calls[j] = 1 /\ j \in Finished
    /\ Cardinality(Sent) = MaxLoad - num_threads
    /\ Panicked # {} /\ Panicked # Sent
    /\ queue = <<>>

\* C3: the idle wait does not return early: when a caller's wait finds
\* has_work() false and returns, every job the caller submitted before has
\* ended; none is queued or running.
IdleWaitNotEarly ==
    \A p \in Producers :
        ppc[p] = "wait_done" =>
            \A j \in Sent : j[1] = p =>
                /\ j \in Finished
                /\ \A i \in 1 .. Len(queue) : queue[i] # j

\* A caller's wait returns after its two jobs, one of which panicked.
IdleWaitNotEarlyWitness ==
    \E p \in Producers :
        /\ ppc[p] = "wait_done"
        /\ sent[p] = 2
        /\ \E j \in Panicked : j[1] = p

\* While a caller is blocked in empty_condvar.wait and the counters show an idle
\* pool, a worker is on its way to notify_all.
NotifierPending ==
    (empty_condvar # {} /\ queued_count = 0 /\ active_count = 0) =>
        \E w \in Spawned : wpc[w] \in {"drop_panicking", "nw_queued", "nw_active",
                                       "nw_lock", "nw_notify"}

\* C4: the idle wait misses no wake-up: no caller stays blocked in
\* empty_condvar.wait while the pool is idle and no worker is about to notify,
\* and every caller that has begun a wait eventually returns from it, for two
\* concurrent waiters and every interleaving of the wait with the workers'
\* no_work_notify_all.
IdleWaitReturns ==
    /\ []NotifierPending
    /\ \A p \in Producers : (ppc[p] \notin {"idle", "send"}) ~> (ppc[p] = "idle")

\* Both callers are blocked in empty_condvar.wait at the same time.
IdleWaitReturnsWitness == empty_condvar = Producers

\* The jobs that are claimed by a worker and not yet started, and those that run.
Claimed == {w \in Spawned : wpc[w] \in {"count_active", "count_queued"}}
Running == {w \in Spawned : wpc[w] = "running"}

\* C11: the counters never undercount the outstanding work: in every state,
\* also between execute's increment and its send and between a worker's recv
\* and its two updates, queued_count + active_count is at least the number of
\* jobs that are in the channel, claimed and not yet started, or running; so
\* both are never zero while there is such a job.
NeverUndercount ==
    LET outstanding == Len(queue) + Cardinality(Claimed) + Cardinality(Running)
    IN  /\ queued_count + active_count >= outstanding
        /\ queued_count + active_count < UsizeModulus
        /\ outstanding > 0 => ~(queued_count = 0 /\ active_count = 0)

\* A producer is between its increment and its send, a worker is between its
\* two updates and another job is in the channel: the counters show one job
\* more than are outstanding.
NeverUndercountWitness ==
    /\ \E p \in Producers : ppc[p] = "send"
    /\ \E w \in Spawned : wpc[w] = "count_queued"
    /\ queue # <<>>
    /\ queued_count + active_count = Len(queue) + Cardinality(Claimed) + 2

\* C12: the jobs of one producer are handed out in the order it submitted them:
\* a job is never received by a worker before the job the same producer
\* submitted just before it, and the channel holds each producer's jobs in
\* submission order.
SubmissionOrder ==
    /\ \A j \in Job : j[2] > 1 /\ received[j] > 0 => received[<<j[1], j[2] - 1>>] > 0
    /\ \A i, k \in 1 .. Len(queue) :
           i < k /\ queue[i][1] = queue[k][1] => queue[i][2] < queue[k][2]
    /\ \A i \in 1 .. Len(queue) : \A j \in Job :
           j[1] = queue[i][1] /\ j[2] < queue[i][2] /\ received[j] = 0 =>
               \E k \in 1 .. i - 1 : queue[k] = j

\* A worker holds the second job of one producer; the first one and a job of
\* the other producer have been received before.
SubmissionOrderWitness ==
    \E w \in Spawned, p, q \in Producers :
        /\ p # q
        /\ message[w] = <<p, 2>>
        /\ received[<<p, 1>>] = 1 /\ received[<<q, 1>>] = 1

\* C13 as stated: lowering the target is lazy and exact: the step that lowers
\* max_thread_count interrupts no running job, and once the target is below the
\* number of live workers, the loop-top check brings the number of live workers
\* to exactly the target (as long as the pool is not dropped).
ResizeDownLazyAndExact ==
    /\ [][max_thread_count' < max_thread_count => UNCHANGED <<wpc, outcome, message>>]_vars
    /\ (bpc = "built" /\ Cardinality(Live) > max_thread_count)
           ~> (bpc = "dropped" \/ Cardinality(Live) = max_thread_count)

\* The has_work calls that have returned false: a caller's wait that is about
\* to return, a worker that is about to notify.
ReturnedFalse ==
    {caller_saw[p] : p \in {q \in Producers : ppc[q] = "wait_done"}}
        \cup {worker_saw[w] : w \in {v \in Spawned : wpc[v] = "nw_lock"}}

\* C14 as stated: when a call of has_work returns false, both counters were 0
\* in one state between its load of queued_count and its load of active_count.
HasWorkFalseWasIdle == \A saw \in ReturnedFalse : saw = "idle"

\* C14 amended: when a call of has_work returns false, either both counters
\* were 0 in one state between its two loads, or an execute incremented
\* queued_count between them.
HasWorkFalseWasIdleOrRaced == \A saw \in ReturnedFalse : saw \in {"idle", "raced"}

\* A call of has_work returns false although the counters were never both 0
\* during the call: an execute raced with it, and its job is still counted in
\* queued_count.
HasWorkFalseWitness ==
    /\ "raced" \in ReturnedFalse
    /\ queued_count > 0

\* The workers that have incremented active_count and not yet decremented it:
\* from fetch_add to the fetch_sub of the loop or, unwinding, of Sentinel::drop.
CountedActive ==
    {w \in Spawned : \/ wpc[w] \in {"count_queued", "running", "uncount_active"}
                     \/ wpc[w] = "drop" /\ panicking[w]}

\* C15: every job execution is bracketed by one increment and one decrement of
\* active_count, the decrement followed by one call of no_work_notify_all,
\* in the loop when the job returns and in Sentinel::drop when it panics:
\* active_count is the number of workers between their increment and their
\* decrement, queued_count is the number of jobs counted and not yet taken
\* out, no counter steps by more than one or wraps around, and the worker that
\* decrements goes on to no_work_notify_all.
BracketedByCounts ==
    /\ [](/\ active_count = Cardinality(CountedActive)
          /\ queued_count = Len(queue) + Cardinality(Claimed)
                             + Cardinality({p \in Producers : ppc[p] = "send"}))
    /\ [][/\ active_count' \in {active_count - 1, active_count, active_count + 1}
          /\ queued_count' \in {queued_count - 1, queued_count, queued_count + 1}
          /\ \A w \in Workers :
                /\ wpc[w] = "uncount_active" /\ wpc'[w] # wpc[w] =>
                       active_count' = active_count - 1 /\ wpc'[w] = "nw_queued"
                /\ wpc[w] = "drop" /\ wpc'[w] # wpc[w] =>
                       active_count' = active_count - 1 /\ wpc'[w] = "drop_panicking"
                /\ wpc[w] = "drop_panicking" /\ wpc'[w] # wpc[w] =>
                       active_count' = active_count /\ wpc'[w] = "nw_queued"
                /\ wpc[w] \in {"nw_queued", "nw_active", "nw_lock", "nw_notify", "cancel"} =>
                       active_count' >= active_count \/ wpc'[w] = wpc[w]]_vars

\* One job has returned and one has panicked, each worker has decremented
\* active_count once, and the replacement runs a third job.
BracketedByCountsWitness ==
    /\ \E j \in Job : outcome[j] = "returned"
    /\ Panicked # {}
    /\ panic_count = 1
    /\ active_count = 1
    /\ Running # {}

\* C16: a worker that leaves its loop by a break cancels its Sentinel: its
\* exit changes none of active_count, queued_count and panic_count and spawns
\* no worker, and a worker is spawned, after the build, only by a worker whose
\* job panicked.
GracefulExitDisarmed ==
    /\ [](\A w \in Exited : ~panicking[w] => ~sentinel[w] /\ ~in_drop[w])
    /\ [][\A w \in Workers :
            wpc[w] = "cancel" /\ wpc'[w] # wpc[w] =>
               /\ wpc'[w] = "exited"
               /\ ~sentinel'[w]
               /\ UNCHANGED <<active_count, queued_count, panic_count, nspawned>>]_vars
    /\ [][nspawned' # nspawned /\ bpc # "spawn" =>
            \E w \in Workers : /\ panicking[w] /\ wpc[w] = "drop_spawn"
                               /\ wpc'[w] = "exited"
                               /\ nspawned' = nspawned + 1]_vars

\* After the drop of the pool one worker has ended by a break and another,
\* whose job panicked, by spawning its replacement.
GracefulExitDisarmedWitness ==
    /\ \E w \in Exited : ~panicking[w]
    /\ \E w \in Exited : panicking[w]
    /\ nspawned = num_threads + 1
    /\ active_count = 0 /\ queued_count = 0 /\ panic_count = 1

\* C17: while the pool is alive, with max_thread_count as build set it, the
\* loop-top check never fires: every value of active_count a worker reads at
\* the top of its loop is below max_thread_count, no worker leaves the loop by
\* a break, and the workers in the loop number at most num_threads, and exactly
\* num_threads unless a panicking worker has not yet started its replacement.
LoopTopNeverFires ==
    bpc \in {"spawn", "built"} =>
        /\ max_thread_count = num_threads
        /\ \A w \in Spawned :
              /\ wpc[w] = "load_active" => active_count < max_thread_count
              /\ wpc[w] = "load_max" => thread_counter_val[w] < max_thread_count
              /\ wpc[w] # "cancel"
              /\ wpc[w] = "exited" => panicking[w]
        /\ Cardinality(InLoop) <= num_threads
        /\ bpc = "built" => Cardinality(InLoop) = num_threads - Cardinality(Replacing)

\* In a pool of two threads a replacement worker reads active_count as 1 at the
\* top of its loop, while the other worker runs a job.
LoopTopNeverFiresWitness ==
    /\ bpc = "built"
    /\ max_thread_count = 2
    /\ Running # {}
    /\ \E w \in Spawned : /\ w > num_threads
                          /\ wpc[w] = "load_max"
                          /\ thread_counter_val[w] = max_thread_count - 1

\* C18: after the pool is dropped every worker thread ends, the replacements
\* spawned by jobs that panic during the drain included: under fair scheduling,
\* with jobs that end, the system reaches a state with no live worker, an empty
\* channel, both counters 0 and the job_receiver lock free.
WorkersTerminateAfterDrop ==
    (bpc = "dropped") ~> (/\ Live = {}
                          /\ queue = <<>>
                          /\ queued_count = 0 /\ active_count = 0
                          /\ job_receiver = 0)

\* The pool was dropped with every sent job still in the channel; one of them
\* panicked, its replacement was spawned, and every worker has ended.
WorkersTerminateAfterDropWitness ==
    /\ bpc = "dropped"
    /\ dropped_with = Cardinality(Sent) /\ dropped_with >= 2
    /\ Panicked # {}
    /\ nspawned > num_threads
    /\ Live = {}

\* C19: the job_receiver lock is held only by a worker that waits in recv: no
\* worker holds it while it counts, runs a job, notifies or unwinds, so no
\* panic happens under the lock, and a worker that runs a job does not keep
\* the others from receiving.
LockHeldOnlyInRecv ==
    /\ job_receiver \in Spawned \cup {0}
    /\ \A w \in Spawned :
          /\ job_receiver = w => wpc[w] = "recv" /\ ~panicking[w]
          /\ wpc[w] = "recv" => job_receiver = w

\* Both workers of a pool of two threads run a job at the same time, and the
\* job_receiver lock is free.
LockHeldOnlyInRecvWitness ==
    /\ num_threads = 2
    /\ Cardinality(Running) = num_threads
    /\ job_receiver = 0

\* C20 as stated: whenever the two counters show an idle pool, panic_count
\* equals the number of jobs that have panicked so far.
PanicCountUpToDateWhenIdle ==
    (queued_count = 0 /\ active_count = 0) => panic_count = Cardinality(Panicked)

====
